---------------------------- MODULE Spec2Model ----------------------------
(* A model of logutils.py: the DatabaseHandler (construction with mapping *)
(* validation, emit with its row translation and fault isolation, close)  *)
(* and the two idempotent attach helpers setup_file_logger and            *)
(* setup_stream_logger.                                                   *)
(*                                                                        *)
(* Text that the code inspects character by character (strip, splitlines, *)
(* the % operator) is a sequence of one-character strings; text that the  *)
(* code only concatenates (column names, the INSERT statement) is a       *)
(* string.                                                                *)
EXTENDS Integers, Sequences, FiniteSets, TLC

VARIABLES
    sink,       \* the DatabaseHandler object: state, table, mapping, cursor
    connection, \* the connection handed to the handler: "open" / "closed"
    ctor,       \* outcome of the last DatabaseHandler(...) call
    history,    \* outcomes of the emit calls made so far, oldest first
    stderr,     \* exception classes whose traceback was printed to sys.stderr
    closed,     \* outcome of the last close() call
    loggers,    \* the logging registry: logger name -> [level, handlers]
    attach      \* per logger: how many setup_file_logger and
                \* setup_stream_logger calls were made on it, the streams
                \* the latter named and the arguments of the first of them

dbvars == <<sink, connection, ctor, history, stderr, closed>>
vars == <<sink, connection, ctor, history, stderr, closed, loggers, attach>>

(* ----------------------------- bounds --------------------------------- *)
MaxEmits == 2
MaxCalls == 4

(* ------------------------- Python values ------------------------------ *)
\* A value is [t: its type's name, s: its text or items, n: its number].
PyNone == [t |-> "NoneType", s |-> <<>>, n |-> 0]
PyStr(chars) == [t |-> "str", s |-> chars, n |-> 0]
PyInt(k) == [t |-> "int", s |-> <<>>, n |-> k]
PyFloat(k) == [t |-> "float", s |-> <<>>, n |-> k]
PyDateTime(k) == [t |-> "datetime", s |-> <<>>, n |-> k]
\* a tuple of one-character strings, e.g. the args of a record
PyTuple(items) == [t |-> "tuple", s |-> items, n |-> Len(items)]
\* an exception triple: n counts its entries that are not None, s is what
\* traceback.print_exception writes for it
PyExcInfo(k, printed) == [t |-> "exc_info", s |-> printed, n |-> k]

\* isinstance(value, (str, int, float, type(None), datetime.datetime))
ParamTypes == {"str", "int", "float", "NoneType", "datetime"}

Whitespace == {" ", "\t", "\n", "\r"}
LineBreaks == {"\n", "\r"}

RECURSIVE LStrip(_)
LStrip(chars) ==
    IF chars # <<>> /\ Head(chars) \in Whitespace THEN LStrip(Tail(chars))
    ELSE chars

RECURSIVE RStrip(_)
RStrip(chars) ==
    IF chars # <<>> /\ chars[Len(chars)] \in Whitespace
    THEN RStrip(SubSeq(chars, 1, Len(chars) - 1))
    ELSE chars

\* str.strip()
Strip(chars) == RStrip(LStrip(chars))

\* str.splitlines(): the lines without their line breaks ("\n", "\r" or
\* "\r\n"); a line break at the very end opens no further line
RECURSIVE SplitLinesFrom(_, _)
SplitLinesFrom(chars, line) ==
    IF chars = <<>> THEN (IF line = <<>> THEN <<>> ELSE <<line>>)
    ELSE IF Head(chars) = "\r" /\ Len(chars) > 1 /\ chars[2] = "\n"
         THEN <<line>> \o SplitLinesFrom(Tail(Tail(chars)), <<>>)
    ELSE IF Head(chars) \in LineBreaks
         THEN <<line>> \o SplitLinesFrom(Tail(chars), <<>>)
    ELSE SplitLinesFrom(Tail(chars), Append(line, Head(chars)))

SplitLines(chars) == SplitLinesFrom(chars, <<>>)

\* sep.join(parts) on character sequences
RECURSIVE JoinChars(_, _)
JoinChars(sep, parts) ==
    IF parts = <<>> THEN <<>>
    ELSE IF Len(parts) = 1 THEN parts[1]
    ELSE parts[1] \o sep \o JoinChars(sep, Tail(parts))

\* sep.join(parts) on strings
RECURSIVE JoinStr(_, _)
JoinStr(sep, parts) ==
    IF parts = <<>> THEN ""
    ELSE IF Len(parts) = 1 THEN parts[1]
    ELSE parts[1] \o sep \o JoinStr(sep, Tail(parts))

\* repr of a tuple of one-character strings: ('a', 'b'), ('a',), ()
RECURSIVE ReprItems(_)
ReprItems(items) ==
    IF items = <<>> THEN <<>>
    ELSE <<"'", Head(items), "'">>
         \o (IF Len(items) > 1 THEN <<",", " ">> ELSE <<>>)
         \o ReprItems(Tail(items))

\* str(value) for the values that are no parameter type
PyStrOf(value) ==
    IF value.t = "tuple"
    THEN PyStr(<<"(">> \o ReprItems(value.s)
               \o (IF value.n = 1 THEN <<",">> ELSE <<>>) \o <<")">>)
    ELSE IF value.t = "exc_info" THEN PyStr(<<"(">> \o value.s \o <<")">>)
    ELSE PyStr(value.s)

(* ----------------------------- exceptions ----------------------------- *)
NoExc == "None"
ExceptionBase ==
    [TypeError |-> "Exception", AttributeError |-> "Exception",
     ValueError |-> "Exception", DatabaseError |-> "Exception",
     Exception |-> "BaseException",
     BaseException |-> "object"]

RECURSIVE IsSubclass(_, _)
IsSubclass(cls, base) ==
    IF cls = base THEN TRUE
    ELSE IF cls \notin DOMAIN ExceptionBase THEN FALSE
    ELSE IsSubclass(ExceptionBase[cls], base)

\* an except clause for the driver's errors only
CatchesDatabaseErrorOnly(cls) == IsSubclass(cls, "DatabaseError")

\* except Exception
Catches(cls) == IsSubclass(cls, "Exception")

(* ----------------------------- LogRecord ------------------------------ *)
\* The attributes LogRecord.__init__ sets (the host library's record).
RecordInitAttrs ==
    {"name", "msg", "args", "levelname", "levelno", "pathname", "filename",
     "module", "exc_info", "exc_text", "stack_info", "lineno", "funcName",
     "created", "msecs", "relativeCreated", "thread", "threadName",
     "processName", "process"}

\* logging.makeLogRecord({}); texts are abbreviated to one character
BlankRecord ==
    [a \in RecordInitAttrs |->
        CASE a \in {"name", "exc_info", "exc_text", "stack_info", "funcName"}
               -> PyNone
          [] a \in {"msg", "pathname", "filename", "module"} -> PyStr(<<>>)
          [] a = "args" -> PyTuple(<<>>)
          [] a = "levelname" -> PyStr(<<"N">>)
          [] a \in {"levelno", "lineno"} -> PyInt(0)
          [] a \in {"created", "msecs", "relativeCreated"} -> PyFloat(17)
          [] a \in {"thread", "process"} -> PyInt(1)
          [] OTHER -> PyStr(<<"M">>)]

\* bool(value)
Truthy(value) ==
    CASE value.t = "NoneType" -> FALSE
      [] value.t = "str" -> value.s # <<>>
      [] value.t = "tuple" -> value.s # <<>>
      [] value.t = "exc_info" -> TRUE
      [] OTHER -> value.n # 0

\* any(exc_info) for an exception triple
AnyItem(value) == value.t = "exc_info" /\ value.n > 0

\* msg % args for %s and %% directives; args are one-character strings
RECURSIVE Interpolate(_, _)
Interpolate(chars, args) ==
    IF chars = <<>>
    THEN [exc |-> IF args = <<>> THEN NoExc ELSE "TypeError", text |-> <<>>]
    ELSE IF Head(chars) # "%"
    THEN LET rest == Interpolate(Tail(chars), args)
         IN  [exc |-> rest.exc, text |-> <<Head(chars)>> \o rest.text]
    ELSE IF Len(chars) = 1 THEN [exc |-> "ValueError", text |-> <<>>]
    ELSE IF chars[2] = "%"
    THEN LET rest == Interpolate(Tail(Tail(chars)), args)
         IN  [exc |-> rest.exc, text |-> <<"%">> \o rest.text]
    ELSE IF chars[2] # "s" THEN [exc |-> "ValueError", text |-> <<>>]
    ELSE IF args = <<>> THEN [exc |-> "TypeError", text |-> <<>>]
    ELSE LET rest == Interpolate(Tail(Tail(chars)), Tail(args))
         IN  [exc |-> rest.exc, text |-> <<Head(args)>> \o rest.text]

\* LogRecord.getMessage()
GetMessage(record) ==
    LET msg == IF record["msg"].t = "str" THEN record["msg"].s
               ELSE PyStrOf(record["msg"]).s
    IN  IF Truthy(record["args"]) THEN Interpolate(msg, record["args"].s)
        ELSE [exc |-> NoExc, text |-> msg]

\* Formatter.formatException: the printed traceback without its last "\n"
FormatException(ei) ==
    IF ei.s # <<>> /\ ei.s[Len(ei.s)] = "\n"
    THEN SubSeq(ei.s, 1, Len(ei.s) - 1)
    ELSE ei.s

\* self.format(record) with the default formatter "%(message)s": sets
\* record.message, and record.exc_text when there is exception info
Format(record) ==
    LET m == GetMessage(record)
        withMsg == ("message" :> PyStr(m.text)) @@ record
    IN  IF m.exc # NoExc THEN [exc |-> m.exc, rec |-> record]
        ELSE IF Truthy(record["exc_info"]) /\ ~Truthy(record["exc_text"])
        THEN [exc |-> NoExc,
              rec |-> [withMsg EXCEPT
                  !["exc_text"] = PyStr(FormatException(record["exc_info"]))]]
        ELSE [exc |-> NoExc, rec |-> withMsg]

\* the class attribute default_mapping: the blank record is formatted and
\* its attribute names are keyed by their lower-case forms
Lower(a) ==
    CASE a = "funcName" -> "funcname"
      [] a = "relativeCreated" -> "relativecreated"
      [] a = "threadName" -> "threadname"
      [] a = "processName" -> "processname"
      [] OTHER -> a

default_mapping ==
    {<<Lower(k), k>> : k \in DOMAIN Format(BlankRecord).rec}

LOG_TABLE_MAP ==
    << <<"date", "created">>, <<"logger", "name">>, <<"module", "module">>,
       <<"func_name", "funcName">>, <<"line", "lineno">>,
       <<"level", "levelno">>, <<"level_name", "levelname">>,
       <<"message", "message">>, <<"traceback", "exc_info">> >>

\* a dict is a sequence of <<key, value>> pairs in insertion order
Keys(mapping) == [i \in 1..Len(mapping) |-> mapping[i][1]]
Values(mapping) == [i \in 1..Len(mapping) |-> mapping[i][2]]
Range(seq) == {seq[i] : i \in 1..Len(seq)}

(* ------------------------- row translation ---------------------------- *)
\* datetime.datetime.fromtimestamp(value)
FromTimestamp(value) ==
    IF value.t \in {"int", "float"}
    THEN [exc |-> NoExc, param |-> PyDateTime(value.n)]
    ELSE [exc |-> "TypeError", param |-> PyNone]

\* the loop body with the parameter-type test ahead of the blank-str test
CoercePassThroughFirst(record, attr) ==
    IF attr \notin DOMAIN record
    THEN [exc |-> "AttributeError", param |-> PyNone]
    ELSE LET value == record[attr] IN
    IF attr = "created" THEN FromTimestamp(value)
    ELSE IF attr \in {"exc_info", "exc_text"}
    THEN IF Truthy(record["exc_info"]) /\ AnyItem(record["exc_info"])
         THEN [exc |-> NoExc,
               param |-> PyStr(JoinChars(<<"|">>,
                   SplitLines(FormatException(record["exc_info"]))))]
         ELSE [exc |-> NoExc, param |-> PyNone]
    ELSE IF value.t \in ParamTypes THEN [exc |-> NoExc, param |-> value]
    ELSE IF value.t = "str" /\ Strip(value.s) = <<>>
    THEN [exc |-> NoExc, param |-> PyNone]
    ELSE [exc |-> NoExc, param |-> PyStrOf(value)]

\* one pass of the loop over self.mapping.values()
Coerce(record, attr) ==
    IF attr \notin DOMAIN record
    THEN [exc |-> "AttributeError", param |-> PyNone]
    ELSE LET value == record[attr] IN
    IF attr = "created" THEN FromTimestamp(value)
    ELSE IF attr \in {"exc_info", "exc_text"}
    THEN IF Truthy(record["exc_info"]) /\ AnyItem(record["exc_info"])
         THEN [exc |-> NoExc,
               param |-> PyStr(JoinChars(<<"|">>,
                   SplitLines(FormatException(record["exc_info"]))))]
         ELSE [exc |-> NoExc, param |-> PyNone]
    ELSE IF value.t = "str" /\ Strip(value.s) = <<>>
    THEN [exc |-> NoExc, param |-> PyNone]
    ELSE IF value.t \in ParamTypes THEN [exc |-> NoExc, param |-> value]
    ELSE [exc |-> NoExc, param |-> PyStrOf(value)]

\* the whole loop: the parameters so far, until an attribute raises
RECURSIVE Translate(_, _, _)
Translate(record, attrs, params) ==
    IF attrs = <<>> THEN [exc |-> NoExc, params |-> params]
    ELSE LET c == Coerce(record, Head(attrs))
         IN  IF c.exc # NoExc THEN [exc |-> c.exc, params |-> params]
             ELSE Translate(record, Tail(attrs), Append(params, c.param))

\* the statement with the attribute names as its columns
InsertQueryOfAttributes(table, mapping) ==
    "INSERT INTO " \o table
    \o " (" \o JoinStr(", ", Values(mapping))
    \o ") VALUES (" \o JoinStr(", ", [i \in 1..Len(mapping) |-> "?"])
    \o ");"

\* self.insert_query.format(table=..., cols=..., values=...)
insert_query(table, mapping) ==
    "INSERT INTO " \o table
    \o " (" \o JoinStr(", ", Keys(mapping))
    \o ") VALUES (" \o JoinStr(", ", [i \in 1..Len(mapping) |-> "?"])
    \o ");"

(* --------------------------- DatabaseHandler --------------------------- *)
\* sorted() compares str values by code point: the attribute names the
\* candidate mappings use, in that order
AsciiOrder ==
    <<"Level", "args", "asctime", "bogus", "created", "exc_info", "exc_text",
      "funcName", "levelname", "levelno", "lineno", "message", "module",
      "msg", "name">>

StrLess(a, b) ==
    \E i, j \in 1..Len(AsciiOrder) :
        AsciiOrder[i] = a /\ AsciiOrder[j] = b /\ i < j

\* sorted(diff)
RECURSIVE Sorted(_)
Sorted(set) ==
    IF set = {} THEN <<>>
    ELSE LET least == CHOOSE x \in set : \A y \in set : ~StrLess(y, x)
         IN  <<least>> \o Sorted(set \ {least})

\* self.mapping = mapping or LOG_TABLE_MAP
EffectiveMapping(arg) ==
    IF arg.given /\ arg.items # <<>> THEN arg.items ELSE LOG_TABLE_MAP

\* the columns checked in place of the attributes
MappingDiffOfKeys(mapping) ==
    Range(Keys(mapping)) \ {pair[2] : pair \in default_mapping}

\* set(self.mapping.values()) - set(self.default_mapping.values())
MappingDiff(mapping) ==
    Range(Values(mapping)) \ {pair[2] : pair \in default_mapping}

\* the text of the AttributeError
ErrorMessage(diff) ==
    "'LogRecord' object has no attribute"
    \o (IF Cardinality(diff) > 1 THEN "s" ELSE "")
    \o " "
    \o JoinStr(", ", [i \in 1..Cardinality(diff) |->
                          "'" \o Sorted(diff)[i] \o "'"])

NotCalled == [called |-> FALSE]

\* __init__(connection, table, mapping)
DatabaseHandler(table, arg) ==
    /\ sink.state = "absent"
    /\ connection = "open"
    /\ LET mapping == EffectiveMapping(arg)
           diff == MappingDiff(mapping)
       IN  IF diff # {}
           THEN /\ ctor' = [called |-> TRUE, arg |-> arg,
                            exc |-> "AttributeError",
                            message |-> ErrorMessage(diff)]
                /\ UNCHANGED sink
           ELSE /\ ctor' = [called |-> TRUE, arg |-> arg, exc |-> NoExc,
                            message |-> ""]
                /\ sink' = [state |-> "open", table |-> table,
                            mapping |-> mapping, cursor |-> "open"]
    /\ UNCHANGED <<connection, history, stderr, closed, loggers, attach>>

\* how the connection lets cursor.execute and cursor.commit end
DbFailures == {"none", "execute", "commit"}

\* the commit made whether or not execute raised
DbCallsCommitAlways(dbFail) ==
    CASE dbFail = "execute" -> [calls |-> <<"execute", "commit">>,
                                exc |-> "DatabaseError"]
      [] dbFail = "commit" -> [calls |-> <<"execute", "commit">>,
                               exc |-> "DatabaseError"]
      [] OTHER -> [calls |-> <<"execute", "commit">>, exc |-> NoExc]

\* self.cursor.execute(query, params); self.cursor.commit()
DbCalls(dbFail) ==
    CASE dbFail = "execute" -> [calls |-> <<"execute">>,
                                exc |-> "DatabaseError"]
      [] dbFail = "commit" -> [calls |-> <<"execute", "commit">>,
                               exc |-> "DatabaseError"]
      [] OTHER -> [calls |-> <<"execute", "commit">>, exc |-> NoExc]

\* the except clause of emit: what the steps made so far end in
ExceptClause(steps, exc, query, params) ==
    IF Catches(exc)
    THEN [steps |-> Append(steps, "print_exc"), exc |-> exc,
          escaped |-> NoExc, query |-> query, params |-> params]
    ELSE [steps |-> steps, exc |-> exc, escaped |-> exc, query |-> query,
          params |-> params]

\* emit(record): the steps made, the exception raised inside the try (exc),
\* the one that reaches the caller (escaped), and the arguments of execute
EmitRun(table, mapping, record, dbFail) ==
    LET f == Format(record)
        query == insert_query(table, mapping)
        tr == Translate(f.rec, Values(mapping), <<>>)
        db == DbCalls(dbFail)
        made == <<"format", "query", "translate">>
    IN  IF f.exc # NoExc THEN ExceptClause(<<"format">>, f.exc, "", <<>>)
        ELSE IF tr.exc # NoExc THEN ExceptClause(made, tr.exc, "", <<>>)
        ELSE IF db.exc # NoExc
        THEN ExceptClause(made \o db.calls, db.exc, query, tr.params)
        ELSE [steps |-> made \o db.calls, exc |-> NoExc, escaped |-> NoExc,
              query |-> query, params |-> tr.params]

\* a record as the logging core hands it over; texts are abbreviated
LiveRecord ==
    [a \in RecordInitAttrs |->
        CASE a \in {"exc_info", "exc_text", "stack_info"} -> PyNone
          [] a = "msg" -> PyStr(<<"%", "s", "!">>)
          [] a = "args" -> PyTuple(<<"x">>)
          [] a = "levelno" -> PyInt(20)
          [] a = "lineno" -> PyInt(42)
          [] a \in {"created", "msecs", "relativeCreated"} -> PyFloat(17)
          [] a \in {"thread", "process"} -> PyInt(1)
          [] OTHER -> PyStr(<<"a">>)]

\* what traceback.print_exception writes for the raised exception
Printed == <<"T", "\n", " ", "F", "\n", "E", "\n">>

\* the records emit is called with
Records ==
    << LiveRecord,
       \* padded message, empty logger name, blank function name
       [LiveRecord EXCEPT !["msg"] = PyStr(<<" ", "o", "k", " ">>),
                          !["args"] = PyTuple(<<>>),
                          !["name"] = PyStr(<<>>),
                          !["funcName"] = PyStr(<<" ", "\t">>)],
       \* more arguments than the message takes: formatting raises
       [LiveRecord EXCEPT !["args"] = PyTuple(<<"x", "y">>)],
       \* a raised exception, logged outside any function
       [LiveRecord EXCEPT !["exc_info"] = PyExcInfo(3, Printed),
                          !["funcName"] = PyNone],
       \* an all-None triple, with a stale rendered text
       [LiveRecord EXCEPT !["exc_info"] = PyExcInfo(0, <<"N", "\n">>),
                          !["exc_text"] = PyStr(<<"o", "l", "d">>)],
       \* a creation time that is no number: translation raises
       [LiveRecord EXCEPT !["created"] = PyStr(<<"x">>)] >>

\* emit(record); an entry keeps how the cursor behaved only when emit
\* reached the cursor
emit(r, dbFail) ==
    /\ sink.state = "open"
    /\ sink.cursor = "open"
    /\ Len(history) < MaxEmits
    /\ LET out == EmitRun(sink.table, sink.mapping, Records[r], dbFail)
       IN  /\ history' = Append(history,
                  [rec |-> r, out |-> out,
                   db |-> IF "execute" \in Range(out.steps) THEN dbFail
                          ELSE "unused"])
           /\ stderr' = IF "print_exc" \in Range(out.steps)
                        THEN Append(stderr, out.exc) ELSE stderr
    /\ UNCHANGED <<sink, connection, ctor, closed, loggers, attach>>

\* how the driver lets the two close calls end
CloseFailures == {"none", "cursor", "connection"}

\* close() with the connection closed ahead of the cursor
CloseRunConnectionFirst(fail) ==
    CASE fail = "connection" -> [calls |-> <<"connection.close">>,
                                 escaped |-> "DatabaseError"]
      [] fail = "cursor" ->
             [calls |-> <<"connection.close", "cursor.close">>,
              escaped |-> "DatabaseError"]
      [] OTHER -> [calls |-> <<"connection.close", "cursor.close",
                               "Handler.close">>,
                   escaped |-> NoExc]

\* close(): the calls made and the exception that reaches the caller
CloseRun(fail) ==
    CASE fail = "cursor" -> [calls |-> <<"cursor.close">>,
                             escaped |-> "DatabaseError"]
      [] fail = "connection" ->
             [calls |-> <<"cursor.close", "connection.close">>,
              escaped |-> "DatabaseError"]
      [] OTHER -> [calls |-> <<"cursor.close", "connection.close",
                               "Handler.close">>,
                   escaped |-> NoExc]

\* close(); a call that raised has released what it closed before raising
close(fail) ==
    /\ sink.state = "open"
    /\ LET run == CloseRun(fail)
           done == Len(run.calls) - (IF run.escaped = NoExc THEN 0 ELSE 1)
       IN  /\ closed' = [called |-> TRUE, fail |-> fail, calls |-> run.calls,
                         escaped |-> run.escaped]
           /\ sink' = [sink EXCEPT
                  !.cursor = IF \E i \in 1..done : run.calls[i] = "cursor.close"
                             THEN "closed" ELSE @,
                  !.state = IF \E i \in 1..done : run.calls[i] = "Handler.close"
                            THEN "closed" ELSE @]
           /\ connection' =
                  IF \E i \in 1..done : run.calls[i] = "connection.close"
                  THEN "closed" ELSE connection
    /\ UNCHANGED <<ctor, history, stderr, loggers, attach>>

\* the constructor's arguments
Tables == {"T", "events"}

MappingArgs ==
    { [given |-> FALSE, items |-> <<>>],
      [given |-> TRUE, items |-> <<>>],
      [given |-> TRUE,
       items |-> << <<"date", "created">>, <<"level", "levelno">> >>],
      [given |-> TRUE,
       items |-> << <<"who", "name">>, <<"text", "message">>,
                    <<"tb", "exc_text">>, <<"args", "args">>,
                    <<"raw", "msg">>, <<"fn", "funcName">> >>],
      [given |-> TRUE,
       items |-> << <<"date", "created">>, <<"t", "asctime">> >>],
      [given |-> TRUE,
       items |-> << <<"a", "bogus">>, <<"b", "asctime">>, <<"c", "bogus">>,
                    <<"d", "Level">>, <<"e", "name">> >>] }

NoSink == [state |-> "absent", table |-> "", mapping |-> <<>>,
           cursor |-> "none"]

InitDb ==
    /\ sink = NoSink
    /\ connection = "open"
    /\ ctor = NotCalled
    /\ history = <<>>
    /\ stderr = <<>>
    /\ closed = NotCalled

InitLog ==
    /\ loggers = [l \in {"root", "app"} |->
                     [level |-> IF l = "root" THEN 30 ELSE 0,
                      handlers |-> <<>>]]
    /\ attach = [l \in {"root", "app"} |->
                    [file |-> 0, stream |-> 0, named |-> {},
                     first |-> [stream |-> "",
                                opts |-> [level |-> 0, fmt |-> ""]]]]

Init == InitDb /\ InitLog

Next ==
    \/ \E table \in Tables, arg \in MappingArgs : DatabaseHandler(table, arg)
    \/ \E r \in 1..Len(Records), dbFail \in DbFailures : emit(r, dbFail)
    \/ \E fail \in CloseFailures : close(fail)

Spec == Init /\ [][Next]_vars

(* --------------------------- attach helpers --------------------------- *)
\* the handler classes of the host library and their base classes
HandlerBase ==
    [FileHandler |-> "StreamHandler", StreamHandler |-> "Handler",
     Handler |-> "object"]

\* isinstance(h, cls)
RECURSIVE SubclassOf(_, _)
SubclassOf(cls, base) ==
    IF cls = base THEN TRUE
    ELSE IF cls \notin DOMAIN HandlerBase THEN FALSE
    ELSE SubclassOf(HandlerBase[cls], base)

IsInstance(h, cls) == SubclassOf(h.cls, cls)

\* A file name is a str or a pathlib.Path; its text is absolute or relative
\* and is held as its components. The process runs in the directory /d.
Cwd == <<"d">>
NoPath == [kind |-> "none", abs |-> FALSE, parts |-> <<>>]

\* os.path.normpath for "." components
RECURSIVE NormParts(_)
NormParts(parts) ==
    IF parts = <<>> THEN <<>>
    ELSE IF Head(parts) = "." THEN NormParts(Tail(parts))
    ELSE <<Head(parts)>> \o NormParts(Tail(parts))

\* os.path.abspath(os.fspath(filename)): always a str
AbsPath(filename) ==
    [kind |-> "str", abs |-> TRUE,
     parts |-> NormParts(IF filename.abs THEN filename.parts
                         ELSE Cwd \o filename.parts)]

DEBUG == 10
DefaultFmt == "%(asctime)s %(levelname)-8s %(message)s"

\* logging.FileHandler(filename, mode, encoding) with setLevel, setFormatter
NewFileHandler(filename, opts) ==
    [cls |-> "FileHandler", baseFilename |-> AbsPath(filename),
     stream |-> "file", mode |-> opts.mode, encoding |-> opts.encoding,
     level |-> opts.level, fmt |-> opts.fmt]

\* logging.StreamHandler(stream) with setLevel, setFormatter
NewStreamHandler(stream, opts) ==
    [cls |-> "StreamHandler", baseFilename |-> NoPath,
     stream |-> IF stream = "None" THEN "stderr" ELSE stream,
     mode |-> "None", encoding |-> "None",
     level |-> opts.level, fmt |-> opts.fmt]

\* logging.getLogger(name)
GetLogger(name) == IF name = "None" THEN "root" ELSE name

\* if level_logger is not None: log.setLevel(level_logger)
SetLevel(log, level_logger) ==
    IF level_logger.t # "NoneType" THEN [log EXCEPT !.level = level_logger.n]
    ELSE log

\* the scan of setup_file_logger over log.handlers
FileAttached(handlers, filename) ==
    \E i \in 1..Len(handlers) :
        /\ IsInstance(handlers[i], "FileHandler")
        /\ handlers[i].baseFilename = filename

\* a scan that looks for a handler on the stream of the call
StreamAttachedOnStream(handlers, stream) ==
    \E i \in 1..Len(handlers) :
        /\ IsInstance(handlers[i], "StreamHandler")
        /\ handlers[i].stream = (IF stream = "None" THEN "stderr" ELSE stream)

\* the scan of setup_stream_logger over log.handlers: any stream-type
\* handler ends it, the stream of the call is not looked at
StreamAttached(handlers, stream) ==
    \E i \in 1..Len(handlers) : IsInstance(handlers[i], "StreamHandler")

\* setup_file_logger that gives the handler it finds the level of the call
AfterSetupFileRelevel(log, filename, opts, level_logger) ==
    LET leveled == SetLevel(log, level_logger)
    IN  IF FileAttached(leveled.handlers, filename)
        THEN [leveled EXCEPT
                 !.handlers = [i \in 1..Len(@) |->
                     IF @[i].baseFilename = filename
                     THEN [@[i] EXCEPT !.level = opts.level] ELSE @[i]]]
        ELSE [leveled EXCEPT
                 !.handlers = Append(@, NewFileHandler(filename, opts))]

\* setup_file_logger on one logger
AfterSetupFile(log, filename, opts, level_logger) ==
    LET leveled == SetLevel(log, level_logger)
    IN  IF FileAttached(leveled.handlers, filename) THEN leveled
        ELSE [leveled EXCEPT
                 !.handlers = Append(@, NewFileHandler(filename, opts))]

\* setup_stream_logger on one logger
AfterSetupStream(log, stream, opts, level_logger) ==
    LET leveled == SetLevel(log, level_logger)
    IN  IF StreamAttached(leveled.handlers, stream) THEN leveled
        ELSE [leveled EXCEPT
                 !.handlers = Append(@, NewStreamHandler(stream, opts))]

LoggerNames == {"root", "app"}
CallsMade == attach["root"].file + attach["root"].stream
             + attach["app"].file + attach["app"].stream

setup_file_logger(filename, name, opts, level_logger) ==
    /\ CallsMade < MaxCalls
    /\ LET l == GetLogger(name)
       IN  /\ loggers' = [loggers EXCEPT
                  ![l] = AfterSetupFile(@, filename, opts, level_logger)]
           /\ attach' = [attach EXCEPT ![l].file = @ + 1]
    /\ UNCHANGED dbvars

setup_stream_logger(name, stream, opts, level_logger) ==
    /\ CallsMade < MaxCalls
    /\ LET l == GetLogger(name)
       IN  /\ loggers' = [loggers EXCEPT
                  ![l] = AfterSetupStream(@, stream, opts, level_logger)]
           /\ attach' = [attach EXCEPT
                  ![l].stream = @ + 1,
                  ![l].named = @ \cup {stream},
                  ![l].first = IF attach[l].stream = 0
                               THEN [stream |-> stream, opts |-> opts]
                               ELSE @]
    /\ UNCHANGED dbvars

\* the arguments the helpers are called with
FileNames ==
    { [kind |-> "str", abs |-> TRUE, parts |-> <<"d", "a.log">>],
      [kind |-> "str", abs |-> FALSE, parts |-> <<"a.log">>],
      [kind |-> "Path", abs |-> TRUE, parts |-> <<"d", "a.log">>],
      [kind |-> "str", abs |-> TRUE, parts |-> <<"d", "b.log">>] }
NameArgs == {"None", "app"}
StreamArgs == {"None", "stdout"}
LevelArgs == {PyNone, PyInt(DEBUG)}
FileOptions ==
    { [mode |-> "a", encoding |-> "None", level |-> DEBUG,
       fmt |-> DefaultFmt],
      [mode |-> "w", encoding |-> "utf-8", level |-> 30,
       fmt |-> "%(message)s"] }
StreamOptions ==
    { [level |-> DEBUG, fmt |-> DefaultFmt],
      [level |-> 30, fmt |-> "%(message)s"] }

NextLog ==
    \/ \E filename \in FileNames, name \in NameArgs, opts \in FileOptions,
          level_logger \in LevelArgs :
           setup_file_logger(filename, name, opts, level_logger)
    \/ \E name \in NameArgs, stream \in StreamArgs, opts \in StreamOptions,
          level_logger \in LevelArgs :
           setup_stream_logger(name, stream, opts, level_logger)

NextStream ==
    \E name \in NameArgs, stream \in StreamArgs, opts \in StreamOptions,
       level_logger \in LevelArgs :
        setup_stream_logger(name, stream, opts, level_logger)

SpecLog == Init /\ [][NextLog]_vars
SpecStream == Init /\ [][NextStream]_vars

(* ------------------------------ claims -------------------------------- *)
Entries == {history[i] : i \in 1..Len(history)}
EmitSteps == <<"format", "query", "translate", "execute", "commit">>
\* the step of emit that raises for an entry, "none" when none does,
\* read off the inputs of the call
FormatRaises(e) == e.rec = 3
TranslateRaises(e) ==
    /\ ~FormatRaises(e)
    /\ e.rec = 6
    /\ \E i \in 1..Len(sink.mapping) : sink.mapping[i][2] = "created"
FailingStep(e) ==
    CASE FormatRaises(e) -> 1
      [] TranslateRaises(e) -> 3
      [] e.db = "execute" -> 4
      [] e.db = "commit" -> 5
      [] OTHER -> 0

\* C1: whichever step of emit raises (formatting, translation, execute,
\* commit), emit returns normally, the steps after the failing one are not
\* made, and one diagnostic per failed record is on standard error.
C1_EmitFaultIsolation ==
    /\ \A e \in Entries :
        /\ e.out.escaped = NoExc
        /\ FailingStep(e) # 0 =>
              /\ e.out.exc # NoExc
              /\ e.out.steps = SubSeq(EmitSteps, 1, FailingStep(e))
                               \o <<"print_exc">>
        /\ FailingStep(e) = 0 => e.out.exc = NoExc /\ e.out.steps = EmitSteps
    /\ stderr = [k \in 1..Len(stderr) |->
                    LET failed == {i \in 1..Len(history) :
                                       FailingStep(history[i]) # 0}
                        at == CHOOSE i \in failed :
                                  Cardinality({j \in failed : j <= i}) = k
                    IN  history[at].out.exc]
    /\ Len(stderr) =
           Cardinality({i \in 1..Len(history) : FailingStep(history[i]) # 0})

\* a record whose translation raised, then one whose execute raised
C1_Witness ==
    /\ Len(history) = 2
    /\ TranslateRaises(history[1])
    /\ history[2].db = "execute"
    /\ history[2].out.escaped = NoExc
    /\ stderr = <<"TypeError", "DatabaseError">>

ExposedFields == RecordInitAttrs \cup {"message"}
C2_Unknown(arg) == {arg.items[i][2] : i \in 1..Len(arg.items)} \ ExposedFields
\* C2: a mapping whose values are all record attributes constructs the
\* handler; any other mapping fails with the AttributeError that lists the
\* unknown names once each, sorted, with "attributes" for more than one.
C2_MappingValidation ==
    ctor.called =>
        /\ C2_Unknown(ctor.arg) = {} =>
              /\ ctor.exc = NoExc
              /\ sink.state # "absent"
              /\ ctor.arg.items # <<>> => sink.mapping = ctor.arg.items
        /\ C2_Unknown(ctor.arg) # {} =>
              /\ ctor.exc = "AttributeError"
              /\ sink.state = "absent"
        /\ C2_Unknown(ctor.arg) = {"asctime"} =>
              ctor.message = "'LogRecord' object has no attribute 'asctime'"
        /\ C2_Unknown(ctor.arg) = {"asctime", "bogus", "Level"} =>
              ctor.message = "'LogRecord' object has no attributes "
                             \o "'Level', 'asctime', 'bogus'"

C2_Witness ==
    /\ ctor.called
    /\ Cardinality(C2_Unknown(ctor.arg)) = 3
    /\ ctor.exc = "AttributeError"

C5_Flat(text) ==
    [k \in 1..Len(text) |-> IF text[k] = "\n" THEN "|" ELSE text[k]]
C5_Expected(rec, attr) ==
    LET raw == rec[attr]
        ei == rec["exc_info"]
    IN  CASE attr = "created" -> PyDateTime(raw.n)
          [] attr \in {"exc_info", "exc_text"} ->
                 IF ei.t = "exc_info" /\ ei.n > 0
                 THEN PyStr(C5_Flat(SubSeq(ei.s, 1, Len(ei.s) - 1)))
                 ELSE PyNone
          [] OTHER ->
                 IF raw.t = "str"
                    /\ \A k \in 1..Len(raw.s) : raw.s[k] \in Whitespace
                 THEN PyNone
                 ELSE IF raw.t \in ParamTypes THEN raw
                 ELSE [t |-> "str", s |-> PyStrOf(raw).s, n |-> 0]
\* the records as self.format leaves them (with their message)
Formatted == [r \in 1..Len(Records) |-> Format(Records[r]).rec]
\* C5: each parameter is decided by the first of the five rules that
\* applies to its attribute: created -> datetime; exc_info / exc_text ->
\* the traceback with "|" for its line breaks, or null without exception;
\* blank str -> null; str, int, float, None, datetime -> unchanged;
\* anything else -> str(value).
C5_RowTranslation ==
    \A e \in Entries :
        "execute" \in Range(e.out.steps) =>
            \A i \in 1..Len(sink.mapping) :
                e.out.params[i] =
                    C5_Expected(Formatted[e.rec], sink.mapping[i][2])

\* a padded message kept as it is, a blank name nulled, a traceback
\* flattened and a tuple rendered, all passed to execute
C5_Witness ==
    /\ Len(history) = 2
    /\ history[1].rec = 2 /\ history[2].rec = 4
    /\ "execute" \in Range(history[1].out.steps)
    /\ "execute" \in Range(history[2].out.steps)
    /\ sink.mapping[1][2] = "name" /\ sink.mapping[2][2] = "message"
    /\ history[1].out.params[1] = PyNone
    /\ history[1].out.params[2] = PyStr(<<" ", "o", "k", " ">>)
    /\ history[1].out.params[6] = PyNone
    /\ history[2].out.params[6] = PyNone
    /\ history[2].out.params[3] = PyStr(<<"T", "|", " ", "F", "|", "E">>)
    /\ history[2].out.params[4] = PyStr(<<"(", "'", "x", "'", ",", ")">>)

RECURSIVE C6_List(_, _)
C6_List(parts, n) ==
    IF n = 1 THEN parts[1] ELSE C6_List(parts, n - 1) \o ", " \o parts[n]
\* C6: the statement executed is INSERT INTO {table} (c1, ..., cn) VALUES
\* (?, ..., ?); with the columns in mapping order and n placeholders, and
\* the i-th of the n parameters is the translation of the i-th column's
\* attribute.
C6_StatementAndParameters ==
    \A e \in Entries :
        "execute" \in Range(e.out.steps) =>
            LET n == Len(sink.mapping)
            IN  /\ n >= 1
                /\ e.out.query =
                       "INSERT INTO " \o sink.table \o " ("
                       \o C6_List([i \in 1..n |-> sink.mapping[i][1]], n)
                       \o ") VALUES ("
                       \o C6_List([i \in 1..n |-> "?"], n) \o ");"
                /\ Len(e.out.params) = n
                /\ \A i \in 1..n :
                       e.out.params[i] =
                           Coerce(Formatted[e.rec], sink.mapping[i][2]).param
                /\ (sink.table = "T" /\ Keys(sink.mapping) = <<"date", "level">>)
                       => /\ e.out.query
                               = "INSERT INTO T (date, level) VALUES (?, ?);"
                          /\ e.out.params = <<PyDateTime(17), PyInt(20)>>

C6_Witness ==
    /\ sink.table = "T"
    /\ Keys(sink.mapping) = <<"date", "level">>
    /\ \E e \in Entries : e.db = "none" /\ "execute" \in Range(e.out.steps)

\* C7: close closes the cursor, then the connection, then runs the generic
\* teardown; an error of either close call reaches the caller and the
\* calls after it are not made.
C7_CloseOrder ==
    /\ connection = "closed" => sink.cursor = "closed"
    /\ sink.state = "closed" => connection = "closed"
    /\ closed.called =>
        /\ closed.fail = "none" =>
              /\ closed.calls = <<"cursor.close", "connection.close",
                                  "Handler.close">>
              /\ closed.escaped = NoExc
              /\ sink.state = "closed"
        /\ closed.fail = "cursor" =>
              /\ closed.calls = <<"cursor.close">>
              /\ closed.escaped # NoExc
              /\ connection = "open" /\ sink.state = "open"
        /\ closed.fail = "connection" =>
              /\ closed.calls = <<"cursor.close", "connection.close">>
              /\ closed.escaped # NoExc
              /\ sink.cursor = "closed"
              /\ connection = "open" /\ sink.state = "open"

C7_Witness ==
    /\ closed.called /\ closed.fail = "none"
    /\ sink.state = "closed" /\ connection = "closed"
    /\ Len(history) > 0

C8_Count(steps, name) == Cardinality({i \in 1..Len(steps) : steps[i] = name})
\* C8: an emit makes at most one execute and one commit, the commit only
\* right after an execute that succeeded; a record that fails in
\* formatting, translation or execute gets no commit; and an emit after a
\* failed one runs as on a fresh handler.
C8_ExecuteCommitOrder ==
    /\ \A e \in Entries :
        /\ C8_Count(e.out.steps, "execute") <= 1
        /\ C8_Count(e.out.steps, "commit") <= 1
        /\ \A i \in 1..Len(e.out.steps) :
               e.out.steps[i] = "commit" =>
                   /\ i > 1 /\ e.out.steps[i - 1] = "execute"
                   /\ e.db # "execute"
        /\ FailingStep(e) \in {1, 3, 4} => "commit" \notin Range(e.out.steps)
        /\ FailingStep(e) \in {0, 5} =>
               /\ "execute" \in Range(e.out.steps)
               /\ "commit" \in Range(e.out.steps)
    /\ \A i \in 2..Len(history) :
           (history[i - 1].out.exc # NoExc /\ FailingStep(history[i]) = 0)
               => /\ history[i].out.steps = EmitSteps
                  /\ history[i].out.exc = NoExc
                  /\ Len(history[i].out.params) = Len(sink.mapping)

C8_Witness ==
    /\ Len(history) = 2
    /\ history[1].db = "execute"
    /\ "commit" \notin Range(history[1].out.steps)
    /\ history[2].db = "none"
    /\ history[2].out.steps = EmitSteps

Handlers(l) == loggers[l].handlers
OfClass(l, cls) == {i \in 1..Len(Handlers(l)) : Handlers(l)[i].cls = cls}

\* C3: however the path is written (absolute or relative, str or Path),
\* repeated setup_file_logger calls leave one file handler per distinct
\* resolved path on a logger.
C3_OneFileHandlerPerPath ==
    \A l \in LoggerNames :
        \A i, j \in OfClass(l, "FileHandler") :
            i # j => Handlers(l)[i].baseFilename # Handlers(l)[j].baseFilename

\* C4: after one or more setup_stream_logger calls on a logger, whatever
\* streams they name, the logger holds exactly one stream handler, with the
\* stream, level and format of the first call.
C4_StreamIdempotent ==
    \A l \in LoggerNames :
        attach[l].stream >= 1 =>
            /\ Len(Handlers(l)) = 1
            /\ Handlers(l)[1].cls = "StreamHandler"
            /\ Handlers(l)[1].stream =
                   (IF attach[l].first.stream = "None" THEN "stderr"
                    ELSE attach[l].first.stream)
            /\ Handlers(l)[1].level = attach[l].first.opts.level
            /\ Handlers(l)[1].fmt = attach[l].first.opts.fmt

C4_Witness ==
    \E l \in LoggerNames :
        /\ attach[l].stream = 3
        /\ attach[l].named = {"None", "stdout"}
        /\ attach[l].first.stream = "stdout"
        /\ Len(Handlers(l)) = 1

C9_Level(l, level_logger) ==
    IF level_logger = PyNone THEN loggers[l].level ELSE level_logger.n
\* C9: a setup_file_logger (setup_stream_logger) call that finds its
\* handler already attached sets the logger's level when one is given and
\* leaves the handler list, with each handler's level and format, as it
\* was, whatever mode, encoding, handler level and format the call names.
C9_SuppressedAttachFrame ==
    \A l \in LoggerNames, level_logger \in LevelArgs :
        /\ \A filename \in FileNames, opts \in FileOptions :
               (\E i \in OfClass(l, "FileHandler") :
                    Handlers(l)[i].baseFilename = filename)
               => LET after == AfterSetupFile(loggers[l], filename, opts,
                                              level_logger)
                  IN  /\ after.handlers = Handlers(l)
                      /\ after.level = C9_Level(l, level_logger)
        /\ \A stream \in StreamArgs, opts \in StreamOptions :
               (OfClass(l, "FileHandler") \cup OfClass(l, "StreamHandler")
                    # {})
               => LET after == AfterSetupStream(loggers[l], stream, opts,
                                                level_logger)
                  IN  /\ after.handlers = Handlers(l)
                      /\ after.level = C9_Level(l, level_logger)

\* two setup_file_logger calls and two setup_stream_logger calls were made
\* on a logger that holds one handler of each kind: one call of each kind
\* was suppressed
C9_Witness ==
    \E l \in LoggerNames :
        /\ attach[l].file = 2 /\ attach[l].stream = 2
        /\ Cardinality(OfClass(l, "FileHandler")) = 1
        /\ Cardinality(OfClass(l, "StreamHandler")) = 1
        /\ loggers[l].level = DEBUG

\* C10: on a logger without handlers, one setup_file_logger call and one
\* setup_stream_logger call, in either order, end with one file handler
\* and one console stream handler.
C10_FileAndStreamCommute ==
    \A l \in LoggerNames :
        (attach[l].file = 1 /\ attach[l].stream = 1) =>
            /\ Cardinality(OfClass(l, "FileHandler")) = 1
            /\ Cardinality(OfClass(l, "StreamHandler")) = 1
            /\ Len(Handlers(l)) = 2

==========================================================================
